---- MODULE Spec2Model ----
(***************************************************************************)
(* State-machine model of RealTimeDataProcessor                            *)
(* (src/Muscle Project/real_time_processor.py): the controller's           *)
(* start()/stop()/get_latest_result(), the serial collection thread        *)
(* (_data_collection_loop) and the processing thread (_processing_loop     *)
(* with _process_window), coupled by two bounded queue.Queue objects and   *)
(* the rolling deque(maxlen=buffer_size).                                  *)
(*                                                                         *)
(* Threads are indexed by the run (the n-th effective start()) that        *)
(* spawned them.  Every queued sample carries, beside its value v, the     *)
(* ordinal n of its parse (the value samples_collected took when it was    *)
(* counted); n is bookkeeping of the model (the code queues the bare       *)
(* value) and is read only by the properties, as are n_appended,           *)
(* last_appended (samples appended to the deque so far, and the ordinal of *)
(* the last one), n_windows and last_window (calls of _process_window so   *)
(* far, and the window the last call saw), last_unit (the text of the line  *)
(* read last), bridge (how the last classifier invocation ended),          *)
(* last_returned (the number k of the Result that get_latest_result()      *)
(* returned last; a call that returns None leaves it as it is).  probe     *)
(* holds the arguments and the value of one application of a leaf          *)
(* function (_extract_features, lfilter) outside the pipeline.             *)
(*                                                                         *)
(* Next takes each "counter += 1" as one step.  NextRace takes it as the   *)
(* read and the write it is: ing_loaded and proc_loaded hold the value a   *)
(* thread has read and not yet written back, and increments counts the     *)
(* writes of NextRace, per counter.                                        *)
(***************************************************************************)
EXTENDS Integers, Sequences, FiniteSets, TLC

(***************************************************************************)
(* Bounds of the model.                                                    *)
(***************************************************************************)
\* units the serial line delivers in one behaviour
MaxUnits == 4
\* thread pairs a behaviour can spawn (slots of the per-run thread state)
MaxStarts == 2
\* largest configured buffer_size explored (step_size up to buffer_size + 1)
MaxBufferSize == 3
\* queue.Queue(maxsize=1000) and queue.Queue(maxsize=100), scaled down
DataQueueMaxsize == 2
ResultQueueMaxsize == 2
\* integers of absolute value >= Int64Limit stand for Python ints outside
\* numpy's 64-bit range (2^64 scaled down)
Int64Limit == 50
\* significant bits of a float (53 in float64, scaled down)
MantissaBits == 3
\* longest window or stream given to a leaf function alone
MaxWindowLen == 4

Runs == 1..MaxStarts
None == 0

Min(a, b) == IF a <= b THEN a ELSE b

(***************************************************************************)
(* The serial line: each unit is the stripped text of one line.            *)
(***************************************************************************)
RawUnits == { <<"5">>, <<"9", "9">>, <<"x">>, <<>> }

DigitValue(c) ==
    CASE c = "0" -> 0 [] c = "1" -> 1 [] c = "2" -> 2 [] c = "3" -> 3
      [] c = "4" -> 4 [] c = "5" -> 5 [] c = "6" -> 6 [] c = "7" -> 7
      [] c = "8" -> 8 [] c = "9" -> 9 [] OTHER -> -1

\* an empty line taken for a number
IsDigitsOrEmpty(s) == \A i \in 1..Len(s) : DigitValue(s[i]) >= 0

IsDigits(s) == Len(s) > 0 /\ \A i \in 1..Len(s) : DigitValue(s[i]) >= 0

RECURSIVE DigitsValue(_)
DigitsValue(s) ==
    IF s = <<>> THEN 0
    ELSE 10 * DigitsValue(SubSeq(s, 1, Len(s) - 1)) + DigitValue(s[Len(s)])

HasSign(u) == Len(u) > 0 /\ u[1] \in {"-", "+"}

\* int(text): TRUE iff no ValueError is raised
ParsesAsInt(u) == IsDigits(IF HasSign(u) THEN Tail(u) ELSE u)

\* int(text) for a text that parses
IntValue(u) ==
    IF HasSign(u)
    THEN (IF u[1] = "-" THEN 0 - DigitsValue(Tail(u)) ELSE DigitsValue(Tail(u)))
    ELSE DigitsValue(u)

VARIABLES
    buffer_size, step_size,                   \* configuration
    running, collection_thread, processing_thread,
    caller_pc, starts,                        \* controller and its caller
    data_queue, result_queue,                 \* the two bounded channels
    buffer, filter_state, model,              \* owned by processing
    samples_collected, samples_processed, samples_dropped,
    ing_pc, ing_value, ser,                   \* collection threads
    proc_pc, proc_result,                     \* processing threads
    units_read, last_unit,                    \* the serial line
    start_limit, unit_limit,                  \* extent of one behaviour
    n_appended, last_appended, n_windows, last_window, \* history (model only)
    bridge, last_returned,
    probe,                                    \* a leaf function applied alone
    ing_loaded, proc_loaded, increments       \* counters read, not yet written

config   == <<buffer_size, step_size>>
ctl      == <<running, collection_thread, processing_thread, caller_pc, starts>>
queues   == <<data_queue, result_queue>>
owned    == <<buffer, filter_state, model>>
counters == <<samples_collected, samples_processed, samples_dropped>>
ingest   == <<ing_pc, ing_value, ser>>
process  == <<proc_pc, proc_result>>
history  == <<n_appended, last_appended, n_windows, last_window, bridge>>
calls    == <<last_returned>>
race     == <<ing_loaded, proc_loaded, increments>>
limits   == <<start_limit, unit_limit>>
serial   == <<units_read, last_unit>>
vars == <<config, ctl, queues, owned, counters, ingest, process, serial,
          history, calls, limits, probe, race>>

\* locals not yet assigned
NoSample == [n |-> 0, v |-> 0]
\* prediction = None, and the class indices a classifier returns
NoPrediction == -1
Classes == {0}

NoResult == [k |-> 0, raw_signal |-> <<>>, prediction |-> NoPrediction]

\* self.model = None, and a model stored by load_model
NoModel == "None"
Loaded == "loaded"

\* self.filter_state = None
NoFilterState == [set |-> FALSE, calls |-> 0, after |-> <<>>]

\* no leaf function applied yet
NoProbe == [fn |-> "none"]

(***************************************************************************)
(* __init__, which stores whatever it is given: buffer_size is drawn from  *)
(* 1..MaxBufferSize and step_size from 0..buffer_size + 1, so that a step  *)
(* below, equal to and above the window size all occur.  Init follows one  *)
(* run of the controller: start(), any calls, stop().                      *)
(***************************************************************************)
Constructed ==
    /\ buffer_size \in 1..MaxBufferSize
    /\ step_size \in 0..(buffer_size + 1)
    /\ running = FALSE
    /\ collection_thread = None
    /\ processing_thread = None
    /\ caller_pc = "idle"
    /\ starts = 0
    /\ data_queue = <<>>
    /\ result_queue = <<>>
    /\ buffer = <<>>
    /\ filter_state = NoFilterState
    /\ model = NoModel
    /\ samples_collected = 0
    /\ samples_processed = 0
    /\ samples_dropped = 0
    /\ ing_pc = [r \in Runs |-> "unborn"]
    /\ ing_value = [r \in Runs |-> NoSample]
    /\ ser = [r \in Runs |-> "none"]
    /\ proc_pc = [r \in Runs |-> "unborn"]
    /\ proc_result = [r \in Runs |-> NoResult]
    /\ units_read = 0
    /\ last_unit = <<>>
    /\ n_appended = 0
    /\ last_appended = 0
    /\ n_windows = 0
    /\ last_window = <<>>
    /\ bridge = "unused"
    /\ last_returned = 0
    /\ probe = NoProbe
    /\ ing_loaded = [r \in Runs |-> 0]
    /\ proc_loaded = [r \in Runs |-> 0]
    /\ increments = [collected |-> 0, processed |-> 0, dropped |-> 0]

Init ==
    /\ Constructed
    /\ start_limit = 1
    /\ unit_limit = MaxUnits

(***************************************************************************)
(* queue.Queue(maxsize) and deque(maxlen)                                  *)
(***************************************************************************)
\* the fullness test off by one
QueueFullLate(q, maxsize) == Len(q) > maxsize

QueueFull(q, maxsize) == Len(q) >= maxsize

\* a put that never raises queue.Full: the queue grows
PutAlways(q, x, maxsize) == Append(q, x)

\* a put at the wrong end
PutFront(q, x, maxsize) == IF QueueFull(q, maxsize) THEN q ELSE <<x>> \o q

\* put_nowait: the queue after the call (unchanged when queue.Full is raised)
PutNowait(q, x, maxsize) == IF QueueFull(q, maxsize) THEN q ELSE Append(q, x)

\* deque(maxlen=buffer_size).append: a full deque discards its oldest item
DequeAppend(buf, x) ==
    IF Len(buf) >= buffer_size THEN Append(Tail(buf), x) ELSE Append(buf, x)

(***************************************************************************)
(* start() / stop() / get_latest_result(), called from one caller thread   *)
(***************************************************************************)
\* the caller enters start()
StartCall ==
    /\ caller_pc = "idle"
    /\ running \/ starts < start_limit
    /\ caller_pc' = "start"
    /\ UNCHANGED <<config, running, collection_thread, processing_thread,
                   starts, queues, owned, counters, ingest, process,
                   serial, history, calls, limits, probe, race>>

\* start() without the test of self.running: a second pair is spawned
StartAgain ==
    /\ caller_pc = "start"
    /\ running
    /\ starts < MaxStarts
    /\ LET r == starts + 1 IN
        /\ starts' = r
        /\ collection_thread' = r
        /\ ing_pc' = [ing_pc EXCEPT ![r] = "open"]
        /\ processing_thread' = r
        /\ proc_pc' = [proc_pc EXCEPT ![r] = "loop"]
    /\ caller_pc' = "idle"
    /\ UNCHANGED <<config, running, queues, owned, counters, ing_value, ser,
                   proc_result, serial, history, calls, limits, probe, race>>

\* if self.running: print(...); return
StartNoop ==
    /\ caller_pc = "start"
    /\ running
    /\ caller_pc' = "idle"
    /\ UNCHANGED <<config, running, collection_thread, processing_thread,
                   starts, queues, owned, counters, ingest, process,
                   serial, history, calls, limits, probe, race>>

\* a start() that resets the pipeline before it starts the threads
StartSpawnReset ==
    /\ caller_pc = "start"
    /\ ~running
    /\ LET r == starts + 1 IN
        /\ running' = TRUE
        /\ starts' = r
        /\ collection_thread' = r
        /\ ing_pc' = [ing_pc EXCEPT ![r] = "open"]
        /\ processing_thread' = r
        /\ proc_pc' = [proc_pc EXCEPT ![r] = "loop"]
    /\ buffer' = <<>>
    /\ filter_state' = NoFilterState
    /\ data_queue' = <<>>
    /\ result_queue' = <<>>
    /\ samples_collected' = 0
    /\ samples_processed' = 0
    /\ samples_dropped' = 0
    /\ caller_pc' = "idle"
    /\ UNCHANGED <<config, model, ing_value, ser, proc_result, serial,
                   history, calls, limits, probe, race>>

\* self.running = True; both threads are created and started
StartSpawn ==
    /\ caller_pc = "start"
    /\ ~running
    /\ LET r == starts + 1 IN
        /\ running' = TRUE
        /\ starts' = r
        /\ collection_thread' = r
        /\ ing_pc' = [ing_pc EXCEPT ![r] = "open"]
        /\ processing_thread' = r
        /\ proc_pc' = [proc_pc EXCEPT ![r] = "loop"]
    /\ caller_pc' = "idle"
    /\ UNCHANGED <<config, queues, owned, counters, ing_value, ser,
                   proc_result, serial, history, calls, limits, probe, race>>

\* stop(): self.running = False
StopBegin ==
    /\ caller_pc = "idle"
    /\ running' = FALSE
    /\ caller_pc' = "join_collection"
    /\ UNCHANGED <<config, collection_thread, processing_thread, starts,
                   queues, owned, counters, ingest, process, serial, history, calls, limits, probe, race>>

\* Thread.join(timeout=1) returns once the thread has ended, or after the
\* second with the thread still alive
JoinReturns(pc) == pc = "done" \/ pc # "done"

\* the join without the test of the handle: None has no join, stop() raises
StopJoinCollectionUnguarded ==
    /\ caller_pc = "join_collection"
    /\ collection_thread # None
    /\ caller_pc' = "join_processing"
    /\ UNCHANGED <<config, running, collection_thread, processing_thread,
                   starts, queues, owned, counters, ingest, process,
                   serial, history, calls, limits, probe, race>>

\* if self.collection_thread: self.collection_thread.join(timeout=1)
StopJoinCollection ==
    /\ caller_pc = "join_collection"
    /\ collection_thread # None => JoinReturns(ing_pc[collection_thread])
    /\ caller_pc' = "join_processing"
    /\ UNCHANGED <<config, running, collection_thread, processing_thread,
                   starts, queues, owned, counters, ingest, process,
                   serial, history, calls, limits, probe, race>>

\* if self.processing_thread: self.processing_thread.join(timeout=1);
\* stop() returns
StopJoinProcessing ==
    /\ caller_pc = "join_processing"
    /\ processing_thread # None => JoinReturns(proc_pc[processing_thread])
    /\ caller_pc' = "idle"
    /\ UNCHANGED <<config, running, collection_thread, processing_thread,
                   starts, queues, owned, counters, ingest, process,
                   serial, history, calls, limits, probe, race>>

\* the caller enters get_latest_result()
GetLatestCall ==
    /\ caller_pc = "idle"
    /\ caller_pc' = "get_latest_result"
    /\ UNCHANGED <<config, running, collection_thread, processing_thread,
                   starts, queues, owned, counters, ingest, process,
                   serial, history, calls, limits, probe, race>>

\* Queue.get_nowait on a queue that is not empty: the oldest item
GetNowait(q) == [item |-> Head(q), rest |-> Tail(q)]

\* a get that waits for an item
GetLatestBlocking ==
    /\ caller_pc = "get_latest_result"
    /\ result_queue # <<>>
    /\ result_queue' = Tail(result_queue)
    /\ last_returned' = Head(result_queue).k
    /\ caller_pc' = "idle"
    /\ UNCHANGED <<config, running, collection_thread, processing_thread,
                   starts, data_queue, owned, counters, ingest, process,
                   serial, history, limits, probe, race>>

\* return self.result_queue.get_nowait() / except queue.Empty: return None
get_latest_result ==
    /\ caller_pc = "get_latest_result"
    /\ IF result_queue # <<>>
       THEN /\ result_queue' = GetNowait(result_queue).rest
            /\ last_returned' = GetNowait(result_queue).item.k
       ELSE UNCHANGED <<result_queue, last_returned>>
    /\ caller_pc' = "idle"
    /\ UNCHANGED <<config, running, collection_thread, processing_thread,
                   starts, data_queue, owned, counters, ingest, process,
                   serial, history, limits, probe, race>>

\* load_model: torch.load raises and self.model stays as it was, or the
\* loaded object is stored (before .eval() is tried)
load_model ==
    /\ caller_pc = "idle"
    /\ \E m \in {model, Loaded} : model' = m
    /\ UNCHANGED <<config, ctl, queues, buffer, filter_state, counters,
                   ingest, process, serial, history, calls, limits, probe, race>>

(***************************************************************************)
(* _data_collection_loop, thread of run r                                  *)
(***************************************************************************)
\* serial.Serial(...) succeeds, or raises and the thread ends
IngOpen(r) ==
    /\ ing_pc[r] = "open"
    /\ \/ /\ ser' = [ser EXCEPT ![r] = "open"]
          /\ ing_pc' = [ing_pc EXCEPT ![r] = "loop"]
       \/ /\ ing_pc' = [ing_pc EXCEPT ![r] = "done"]
          /\ UNCHANGED ser
    /\ UNCHANGED <<config, ctl, queues, owned, counters, ing_value, process,
                   serial, history, calls, limits, probe, race>>

\* while self.running: fails -> finally: ser.close()
IngExit(r) ==
    /\ ing_pc[r] = "loop"
    /\ ~running
    /\ ser' = [ser EXCEPT ![r] = "closed"]
    /\ ing_pc' = [ing_pc EXCEPT ![r] = "done"]
    /\ UNCHANGED <<config, ctl, queues, owned, counters, ing_value, process,
                   serial, history, calls, limits, probe, race>>

\* one iteration with ser.in_waiting > 0: readline, int(), and for a value
\* samples_collected += 1; a ValueError goes on to the next iteration
IngRead(r) ==
    /\ ing_pc[r] = "loop"
    /\ running
    /\ units_read < unit_limit
    /\ units_read' = units_read + 1
    /\ \E u \in RawUnits :
        /\ last_unit' = u
        /\ IF ParsesAsInt(u)
           THEN /\ samples_collected' = samples_collected + 1
                /\ ing_value' = [ing_value EXCEPT ![r] =
                                 [n |-> samples_collected + 1, v |-> IntValue(u)]]
                /\ ing_pc' = [ing_pc EXCEPT ![r] = "put"]
           ELSE UNCHANGED <<samples_collected, ing_value, ing_pc>>
    /\ UNCHANGED <<config, ctl, queues, owned, samples_processed,
                   samples_dropped, ser, process, history, calls, limits, probe, race>>

\* a blocking put(value): waits for room in the queue
IngPutBlocking(r) ==
    /\ ing_pc[r] = "put"
    /\ ~QueueFull(data_queue, DataQueueMaxsize)
    /\ data_queue' = Append(data_queue, ing_value[r])
    /\ ing_pc' = [ing_pc EXCEPT ![r] = "loop"]
    /\ UNCHANGED <<config, ctl, result_queue, owned, counters, ing_value, ser,
                   process, serial, history, calls, limits, probe, race>>

\* data_queue.put_nowait(value) / except queue.Full: samples_dropped += 1
IngPut(r) ==
    /\ ing_pc[r] = "put"
    /\ data_queue' = PutNowait(data_queue, ing_value[r], DataQueueMaxsize)
    /\ samples_dropped' = IF QueueFull(data_queue, DataQueueMaxsize)
                          THEN samples_dropped + 1
                          ELSE samples_dropped
    /\ ing_pc' = [ing_pc EXCEPT ![r] = "loop"]
    /\ UNCHANGED <<config, ctl, result_queue, owned, samples_collected,
                   samples_processed, ing_value, ser, process, serial,
                   history, calls, limits, probe, race>>

\* the transport raises (device gone): except Exception, finally: ser.close()
IngFail(r) ==
    /\ ing_pc[r] = "loop"
    /\ running
    /\ ser' = [ser EXCEPT ![r] = "closed"]
    /\ ing_pc' = [ing_pc EXCEPT ![r] = "done"]
    /\ UNCHANGED <<config, ctl, queues, owned, counters, ing_value, process,
                   serial, history, calls, limits, probe, race>>

(***************************************************************************)
(* _process_window                                                         *)
(***************************************************************************)
\* a Python int that numpy holds in a 64-bit (or float64) array
Representable(v) == v < Int64Limit /\ v > 0 - Int64Limit

\* np.array(list(self.buffer)) becomes an object array and np.isnan raises
\* TypeError, which the except clause of _process_window turns into None
WindowRaises(w) == \E i \in 1..Len(w) : ~Representable(w[i].v)

\* a validation that lets every full window through
WindowAcceptedAlways(w) == Len(w) = buffer_size

\* the window passes the length check and the NaN/inf checks
WindowAccepted(w) == Len(w) = buffer_size /\ ~WindowRaises(w)

\* the whole window discarded after processing
EvictedAll(buf) == <<>>

\* for _ in range(self.step_size): if self.buffer: self.buffer.popleft()
Evicted(buf) == SubSeq(buf, Min(step_size, Len(buf)) + 1, Len(buf))

\* lfilter_zi on every window: the state of the previous call is dropped
FilteredReinitialised(state, w) == [set |-> TRUE, calls |-> 1, after |-> w]

\* if self.filter_state is None: lfilter_zi; then lfilter(..., zi=state):
\* the state returned by the call replaces the stored one
Filtered(state, w) == [set |-> TRUE, calls |-> state.calls + 1, after |-> w]

\* how the classifier invocation of one window ends: not tried without a
\* model; with one, _get_prediction returns a class, or the call fails
\* (it raises, or every call convention is rejected)
BridgeOutcomes(m) == IF m = NoModel THEN {"unused"} ELSE {"returned", "failed"}

\* a failed invocation that still yields a class
PredictionAnyway(outcome, c) == IF outcome = "unused" THEN NoPrediction ELSE c

\* prediction of the Result: the class when the invocation returned one;
\* None without a model, and None when the invocation failed
Prediction(outcome, c) == IF outcome = "returned" THEN c ELSE NoPrediction

\* the dict returned for the k-th processed window
Result(k, w, p) == [k |-> k, raw_signal |-> w, prediction |-> p]

\* the length test off by one: fires one sample early
WindowFullEarly(buf) == Len(buf) + 1 >= buffer_size

\* if len(self.buffer) == self.buffer_size
WindowFull(buf) == Len(buf) = buffer_size

(***************************************************************************)
(* _processing_loop, thread of run r                                       *)
(***************************************************************************)
\* while True: the flag is never read
ProcLoopForever(r) ==
    /\ proc_pc[r] = "loop"
    /\ proc_pc' = [proc_pc EXCEPT ![r] = "get"]
    /\ UNCHANGED <<config, ctl, queues, owned, counters, ingest, proc_result,
                   serial, history, calls, limits, probe, race>>

\* while self.running
ProcLoop(r) ==
    /\ proc_pc[r] = "loop"
    /\ proc_pc' = [proc_pc EXCEPT ![r] = IF running THEN "get" ELSE "done"]
    /\ UNCHANGED <<config, ctl, queues, owned, counters, ingest, proc_result,
                   serial, history, calls, limits, probe, race>>

\* value = self.data_queue.get(timeout=0.1); self.buffer.append(value)
ProcGet(r) ==
    /\ proc_pc[r] = "get"
    /\ data_queue # <<>>
    /\ data_queue' = Tail(data_queue)
    /\ buffer' = DequeAppend(buffer, Head(data_queue))
    /\ n_appended' = n_appended + 1
    /\ last_appended' = Head(data_queue).n
    /\ proc_pc' = [proc_pc EXCEPT ![r] = "window"]
    /\ UNCHANGED <<config, ctl, result_queue, filter_state, model, counters,
                   ingest, proc_result, serial, n_windows, last_window, bridge,
                   calls, limits, probe, race>>

\* queue.Empty ends the thread
ProcExitOnEmpty(r) ==
    /\ proc_pc[r] = "get"
    /\ data_queue = <<>>
    /\ proc_pc' = [proc_pc EXCEPT ![r] = "done"]
    /\ UNCHANGED <<config, ctl, queues, owned, counters, ingest, proc_result,
                   serial, history, calls, limits, probe, race>>

\* the get times out on an empty queue: except queue.Empty: continue
ProcTimeout(r) ==
    /\ proc_pc[r] = "get"
    /\ data_queue = <<>>
    /\ proc_pc' = [proc_pc EXCEPT ![r] = "loop"]
    /\ UNCHANGED <<config, ctl, queues, owned, counters, ingest, proc_result,
                   serial, history, calls, limits, probe, race>>

\* _process_window without its except clause, in a loop that does not catch:
\* a window that raises ends the thread
ProcWindowUncaught(r) ==
    /\ proc_pc[r] = "window"
    /\ IF WindowFull(buffer)
       THEN /\ n_windows' = n_windows + 1
            /\ last_window' = buffer
            /\ IF WindowAccepted(buffer)
               THEN /\ filter_state' = Filtered(filter_state, buffer)
                    /\ \E outcome \in BridgeOutcomes(model), c \in Classes :
                          /\ bridge' = outcome
                          /\ proc_result' = [proc_result EXCEPT ![r] =
                                Result(samples_processed + 1, buffer,
                                       Prediction(outcome, c))]
                    /\ buffer' = Evicted(buffer)
                    /\ samples_processed' = samples_processed + 1
                    /\ proc_pc' = [proc_pc EXCEPT ![r] = "publish"]
               ELSE /\ proc_pc' = [proc_pc EXCEPT ![r] = "done"]
                    /\ UNCHANGED <<buffer, filter_state, samples_processed,
                                   proc_result, bridge>>
       ELSE /\ proc_pc' = [proc_pc EXCEPT ![r] = "loop"]
            /\ UNCHANGED <<buffer, filter_state, samples_processed,
                           proc_result, n_windows, last_window, bridge>>
    /\ UNCHANGED <<config, ctl, queues, model, samples_collected, samples_dropped,
                   ingest, serial, n_appended, last_appended, calls, limits, probe, race>>

\* if len(self.buffer) == self.buffer_size: result = self._process_window();
\* a window that raises or fails a check returns None before the eviction
ProcWindow(r) ==
    /\ proc_pc[r] = "window"
    /\ IF WindowFull(buffer)
       THEN /\ n_windows' = n_windows + 1
            /\ last_window' = buffer
            /\ IF WindowAccepted(buffer)
               THEN /\ filter_state' = Filtered(filter_state, buffer)
                    /\ \E outcome \in BridgeOutcomes(model), c \in Classes :
                          /\ bridge' = outcome
                          /\ proc_result' = [proc_result EXCEPT ![r] =
                                Result(samples_processed + 1, buffer,
                                       Prediction(outcome, c))]
                    /\ buffer' = Evicted(buffer)
                    /\ samples_processed' = samples_processed + 1
                    /\ proc_pc' = [proc_pc EXCEPT ![r] = "publish"]
               ELSE /\ proc_pc' = [proc_pc EXCEPT ![r] = "loop"]
                    /\ UNCHANGED <<buffer, filter_state, samples_processed,
                                   proc_result, bridge>>
       ELSE /\ proc_pc' = [proc_pc EXCEPT ![r] = "loop"]
            /\ UNCHANGED <<buffer, filter_state, samples_processed,
                           proc_result, n_windows, last_window, bridge>>
    /\ UNCHANGED <<config, ctl, queues, model, samples_collected, samples_dropped,
                   ingest, serial, n_appended, last_appended, calls, limits, probe, race>>

\* a publish that makes room by discarding the oldest Result
ProcPublishNewestWins(r) ==
    /\ proc_pc[r] = "publish"
    /\ result_queue' =
          IF QueueFull(result_queue, ResultQueueMaxsize)
          THEN Append(Tail(result_queue), proc_result[r])
          ELSE Append(result_queue, proc_result[r])
    /\ proc_pc' = [proc_pc EXCEPT ![r] = "loop"]
    /\ UNCHANGED <<config, ctl, data_queue, owned, counters, ingest,
                   proc_result, serial, history, calls, limits, probe, race>>

\* if result: self.result_queue.put_nowait(result) / except queue.Full: pass
ProcPublish(r) ==
    /\ proc_pc[r] = "publish"
    /\ result_queue' = PutNowait(result_queue, proc_result[r], ResultQueueMaxsize)
    /\ proc_pc' = [proc_pc EXCEPT ![r] = "loop"]
    /\ UNCHANGED <<config, ctl, data_queue, owned, counters, ingest,
                   proc_result, serial, history, calls, limits, probe, race>>

(***************************************************************************)
(* The threads with "self.counter += 1" as a read and a later write        *)
(***************************************************************************)
\* readline, int(), and the read of self.samples_collected
IngReadLoad(r) ==
    /\ ing_pc[r] = "loop"
    /\ running
    /\ units_read < unit_limit
    /\ units_read' = units_read + 1
    /\ \E u \in RawUnits :
        /\ last_unit' = u
        /\ IF ParsesAsInt(u)
           THEN /\ ing_loaded' = [ing_loaded EXCEPT ![r] = samples_collected]
                /\ ing_value' = [ing_value EXCEPT ![r] =
                                 [n |-> 0, v |-> IntValue(u)]]
                /\ ing_pc' = [ing_pc EXCEPT ![r] = "count"]
           ELSE UNCHANGED <<ing_loaded, ing_value, ing_pc>>
    /\ UNCHANGED <<config, ctl, queues, owned, counters, ser, process,
                   history, calls, limits, probe, proc_loaded, increments>>

\* the write of self.samples_collected
IngCount(r) ==
    /\ ing_pc[r] = "count"
    /\ samples_collected' = ing_loaded[r] + 1
    /\ increments' = [increments EXCEPT !.collected = @ + 1]
    /\ ing_value' = [ing_value EXCEPT ![r].n = ing_loaded[r] + 1]
    /\ ing_pc' = [ing_pc EXCEPT ![r] = "put"]
    /\ UNCHANGED <<config, ctl, queues, owned, samples_processed,
                   samples_dropped, ser, process, serial, history, calls,
                   limits, probe, ing_loaded, proc_loaded>>

\* put_nowait; on queue.Full the read of self.samples_dropped
IngPutLoad(r) ==
    /\ ing_pc[r] = "put"
    /\ data_queue' = PutNowait(data_queue, ing_value[r], DataQueueMaxsize)
    /\ IF QueueFull(data_queue, DataQueueMaxsize)
       THEN /\ ing_loaded' = [ing_loaded EXCEPT ![r] = samples_dropped]
            /\ ing_pc' = [ing_pc EXCEPT ![r] = "drop"]
       ELSE /\ ing_pc' = [ing_pc EXCEPT ![r] = "loop"]
            /\ UNCHANGED ing_loaded
    /\ UNCHANGED <<config, ctl, result_queue, owned, counters, ing_value, ser,
                   process, serial, history, calls, limits, probe,
                   proc_loaded, increments>>

\* a sample discarded on the full channel without being counted
IngDropUncounted(r) ==
    /\ ing_pc[r] = "drop"
    /\ ing_pc' = [ing_pc EXCEPT ![r] = "loop"]
    /\ UNCHANGED <<config, ctl, queues, owned, counters, ing_value, ser,
                   process, serial, history, calls, limits, probe, race>>

\* the write of self.samples_dropped
IngDrop(r) ==
    /\ ing_pc[r] = "drop"
    /\ samples_dropped' = ing_loaded[r] + 1
    /\ increments' = [increments EXCEPT !.dropped = @ + 1]
    /\ ing_pc' = [ing_pc EXCEPT ![r] = "loop"]
    /\ UNCHANGED <<config, ctl, queues, owned, samples_collected,
                   samples_processed, ing_value, ser, process, serial,
                   history, calls, limits, probe, ing_loaded, proc_loaded>>

\* _process_window up to the read of self.samples_processed
ProcWindowLoad(r) ==
    /\ proc_pc[r] = "window"
    /\ IF WindowFull(buffer)
       THEN /\ n_windows' = n_windows + 1
            /\ last_window' = buffer
            /\ IF WindowAccepted(buffer)
               THEN /\ filter_state' = Filtered(filter_state, buffer)
                    /\ \E outcome \in BridgeOutcomes(model), c \in Classes :
                          /\ bridge' = outcome
                          /\ proc_result' = [proc_result EXCEPT ![r] =
                                Result(0, buffer, Prediction(outcome, c))]
                    /\ buffer' = Evicted(buffer)
                    /\ proc_loaded' = [proc_loaded EXCEPT ![r] =
                                          samples_processed]
                    /\ proc_pc' = [proc_pc EXCEPT ![r] = "count"]
               ELSE /\ proc_pc' = [proc_pc EXCEPT ![r] = "loop"]
                    /\ UNCHANGED <<buffer, filter_state, proc_loaded,
                                   proc_result, bridge>>
       ELSE /\ proc_pc' = [proc_pc EXCEPT ![r] = "loop"]
            /\ UNCHANGED <<buffer, filter_state, proc_loaded, proc_result,
                           n_windows, last_window, bridge>>
    /\ UNCHANGED <<config, ctl, queues, model, counters, ingest, serial,
                   n_appended, last_appended, calls, limits, probe,
                   ing_loaded, increments>>

\* the write of self.samples_processed, and the return of the dict
ProcCount(r) ==
    /\ proc_pc[r] = "count"
    /\ samples_processed' = proc_loaded[r] + 1
    /\ increments' = [increments EXCEPT !.processed = @ + 1]
    /\ proc_result' = [proc_result EXCEPT ![r].k = proc_loaded[r] + 1]
    /\ proc_pc' = [proc_pc EXCEPT ![r] = "publish"]
    /\ UNCHANGED <<config, ctl, queues, owned, samples_collected,
                   samples_dropped, ingest, serial, history, calls, limits,
                   probe, ing_loaded, proc_loaded>>

\* get_statistics(): the caller reads the counters and the sizes
get_statistics ==
    /\ caller_pc = "idle"
    /\ UNCHANGED vars

(***************************************************************************)
(* Offline windowing: feature_extractor.py and preprocess.py                *)
(***************************************************************************)
\* range(start, stop, step), as the sequence of its values
RECURSIVE RangeFrom(_, _, _)
RangeFrom(start, stop, step) ==
    IF start >= stop THEN <<>>
    ELSE <<start>> \o RangeFrom(start + step, stop, step)

\* for start in range(0, num_samples - window_size + 1, step_size):
\*     windows.append(data[start:start + window_size])
Windowing(data, window_size, step) ==
    LET from == RangeFrom(0, Len(data) - window_size + 1, step)
    IN  [k \in 1..Len(from) |-> SubSeq(data, from[k] + 1, from[k] + window_size)]

(***************************************************************************)
(* Leaf functions, applied alone.  float64 is scaled down to numbers with  *)
(* MantissaBits significant bits (m * 2^e with m < 2^MantissaBits,         *)
(* e >= 0): a sum or a quotient is rounded to the nearest such number,     *)
(* ties to the even significand, as IEEE-754 does.                         *)
(***************************************************************************)
Abs(x) == IF x < 0 THEN 0 - x ELSE x

\* the spacing of the representable numbers around num/den >= 0
RECURSIVE UlpFrom(_, _, _)
UlpFrom(num, den, u) ==
    IF num < u * (2 ^ MantissaBits) * den THEN u ELSE UlpFrom(num, den, 2 * u)

Ulp(num, den) == UlpFrom(num, den, 1)

\* num/den >= 0 rounded to the nearest representable number, ties to even
RoundQuotient(num, den) ==
    LET u  == Ulp(num, den)
        lo == (num \div (den * u)) * u
        r2 == 2 * (num - lo * den)
    IN  IF r2 < u * den THEN lo
        ELSE IF r2 > u * den THEN lo + u
        ELSE IF (lo \div u) % 2 = 0 THEN lo ELSE lo + u

\* the float nearest to x, and the float quotient x / n
Fl(x) == IF x < 0 THEN 0 - RoundQuotient(0 - x, 1) ELSE RoundQuotient(x, 1)
FlDiv(x, n) == IF x < 0 THEN 0 - RoundQuotient(0 - x, n) ELSE RoundQuotient(x, n)

\* np.add.reduce over fewer than 8 items: a running sum, rounded at each add
RECURSIVE FlSum(_)
FlSum(w) ==
    IF w = <<>> THEN 0
    ELSE Fl(FlSum(SubSeq(w, 1, Len(w) - 1)) + w[Len(w)])

\* np.mean: the rounded sum divided by the length, rounded
Mean(w) == FlDiv(FlSum(w), Len(w))

\* np.diff
Diff(w) == [i \in 1..(Len(w) - 1) |-> w[i + 1] - w[i]]

\* np.mean(np.abs(signal))
MeanAbsoluteValue(w) == Mean([i \in 1..Len(w) |-> Abs(w[i])])

\* np.std(signal) squared: the mean of the squared deviations from the mean
Variance(w) ==
    Mean([i \in 1..Len(w) |-> Fl((w[i] - Mean(w)) * (w[i] - Mean(w)))])

\* the slope test with <= in place of <: a flat stretch counts as a change
SlopeSignChangesOrFlat(w) ==
    Cardinality({ i \in 1..(Len(w) - 2) : Diff(w)[i] * Diff(w)[i + 1] <= 0 })

\* diff = np.diff(signal); np.sum((diff[:-1] * diff[1:]) < 0)
SlopeSignChanges(w) ==
    Cardinality({ i \in 1..(Len(w) - 2) : Diff(w)[i] * Diff(w)[i + 1] < 0 })

\* np.signbit
Signbit(x) == x < 0

\* the booleans subtracted as numbers and summed: the crossings cancel
ZeroCrossingsSigned(w) ==
    IF Len(w) < 2 THEN 0
    ELSE (IF Signbit(w[Len(w)]) THEN 1 ELSE 0) - (IF Signbit(w[1]) THEN 1 ELSE 0)

\* np.sum(np.diff(np.signbit(signal))): np.diff of booleans is "not equal"
ZeroCrossings(w) ==
    Cardinality({ i \in 1..(Len(w) - 1) : Signbit(w[i]) # Signbit(w[i + 1]) })

\* np.sign
Sign(x) == IF x < 0 THEN -1 ELSE IF x > 0 THEN 1 ELSE 0

\* feature_extractor.py: np.sum(np.diff(np.sign(window)) != 0)
OfflineZeroCrossings(w) ==
    Cardinality({ i \in 1..(Len(w) - 1) : Sign(w[i + 1]) - Sign(w[i]) # 0 })

\* feature_extractor.py: diff1 = np.diff(window);
\* np.sum((diff1[:-1] * diff1[1:]) < 0)
OfflineSlopeSignChanges(w) ==
    Cardinality({ i \in 1..(Len(w) - 2) : Diff(w)[i] * Diff(w)[i + 1] < 0 })

\* the dict _extract_features returns (std as its square)
ExtractedFeatures(w) ==
    [mav |-> MeanAbsoluteValue(w), std2 |-> Variance(w),
     ssc |-> SlopeSignChanges(w), zc |-> ZeroCrossings(w)]

\* the filter coefficients b, a (a[1] = 1) and lfilter_zi(b, a), for a
\* band-pass of order FilterOrder with integer coefficients
FilterB == <<1, 0, -1>>
FilterA == <<1, -1, 1>>
FilterOrder == Len(FilterA) - 1
LfilterZi == <<-1, -1>>

\* one sample through the filter (transposed direct form II): the output
\* and the next state
FilterStep(z, x) ==
    LET y == FilterB[1] * x + z[1]
    IN  [y |-> y,
         z |-> [i \in 1..FilterOrder |->
                  FilterB[i + 1] * x
                  + (IF i < FilterOrder THEN z[i + 1] ELSE 0)
                  - FilterA[i + 1] * y]]

\* an lfilter that hands back the state it was given
RECURSIVE LfilterStateless(_, _)
LfilterStateless(zi, x) ==
    IF x = <<>> THEN [y |-> <<>>, zf |-> zi]
    ELSE LET head == FilterStep(zi, x[1])
             rest == LfilterStateless(head.z, Tail(x))
         IN  [y |-> <<head.y>> \o rest.y, zf |-> zi]

\* signal.lfilter(b, a, x, zi=zi): the filtered samples and the final state
RECURSIVE Lfilter(_, _)
Lfilter(zi, x) ==
    IF x = <<>> THEN [y |-> <<>>, zf |-> zi]
    ELSE LET head == FilterStep(zi, x[1])
             rest == Lfilter(head.z, Tail(x))
         IN  [y |-> <<head.y>> \o rest.y, zf |-> rest.zf]

\* the sequences over S of lengths lo..hi
SeqsOf(S, lo, hi) == UNION { [1..n -> S] : n \in lo..hi }

\* the constant that fills a window: one whose multiples are representable,
\* and one whose threefold is not
ExactConstant == 2 ^ (MantissaBits - 1)
RoundedConstant == 2 ^ MantissaBits - 2

FeatureValues == { -1, 1, ExactConstant, RoundedConstant }
FeatureWindows == SeqsOf(FeatureValues, 2, MaxWindowLen)
Streams == SeqsOf({ -1, 1, 2 }, 0, MaxWindowLen)

\* self._extract_features(filtered_signal) on one window
ExtractFeatures ==
    /\ probe = NoProbe
    /\ \E w \in FeatureWindows :
          probe' = [fn |-> "_extract_features", signal |-> w,
                    features |-> ExtractedFeatures(w)]
    /\ UNCHANGED <<config, ctl, queues, owned, counters, ingest, process,
                   serial, history, calls, limits, race>>

\* windows of length >= 3 over negative, zero and positive values
SignedWindows == SeqsOf({ -1, 0, 1 }, 3, MaxWindowLen)

\* one window given to _extract_features and to
\* FeatureExtractor.extract_features
CompareExtractors ==
    /\ probe = NoProbe
    /\ \E w \in SignedWindows :
          probe' = [fn |-> "extract_features", window |-> w,
                    streaming |-> [ssc |-> SlopeSignChanges(w),
                                   zc |-> ZeroCrossings(w)],
                    offline |-> [ssc |-> OfflineSlopeSignChanges(w),
                                 zc |-> OfflineZeroCrossings(w)]]
    /\ UNCHANGED <<config, ctl, queues, owned, counters, ingest, process,
                   serial, history, calls, limits, race>>

\* one stream filtered in one call, and in two calls that carry the state
LfilterChunks ==
    /\ probe = NoProbe
    /\ \E x \in Streams, cut \in 0..MaxWindowLen :
          /\ cut <= Len(x)
          /\ LET first  == Lfilter(LfilterZi, SubSeq(x, 1, cut))
                 second == Lfilter(first.zf, SubSeq(x, cut + 1, Len(x)))
             IN  probe' = [fn |-> "lfilter", x |-> x, cut |-> cut,
                           whole |-> Lfilter(LfilterZi, x),
                           chunked |-> [y |-> first.y \o second.y,
                                        zf |-> second.zf]]
    /\ UNCHANGED <<config, ctl, queues, owned, counters, ingest, process,
                   serial, history, calls, limits, race>>

Next ==
    \/ StartCall
    \/ StartNoop
    \/ StartSpawn
    \/ StopBegin
    \/ StopJoinCollection
    \/ StopJoinProcessing
    \/ GetLatestCall
    \/ get_latest_result
    \/ \E r \in Runs : IngOpen(r)
    \/ \E r \in Runs : IngExit(r)
    \/ \E r \in Runs : IngRead(r)
    \/ \E r \in Runs : IngPut(r)
    \/ \E r \in Runs : IngFail(r)
    \/ \E r \in Runs : ProcLoop(r)
    \/ \E r \in Runs : ProcGet(r)
    \/ \E r \in Runs : ProcTimeout(r)
    \/ \E r \in Runs : ProcWindow(r)
    \/ \E r \in Runs : ProcPublish(r)

Spec == Init /\ [][Next]_vars

(***************************************************************************)
(* Scheduling: a thread that can take its next step takes it (each loop    *)
(* iteration is bounded: readline has timeout=1, get has timeout=0.1, the  *)
(* puts do not wait), and a call of the controller that has begun runs to  *)
(* its return (the joins have timeout=1).  Nothing obliges the caller to   *)
(* begin a call, the line to deliver a unit, or the transport to fail.     *)
(***************************************************************************)
Fairness ==
    /\ WF_vars(StartNoop \/ StartSpawn)
    /\ WF_vars(StopJoinCollection)
    /\ WF_vars(StopJoinProcessing)
    /\ WF_vars(get_latest_result)
    /\ \A r \in Runs :
          /\ WF_vars(IngOpen(r))
          /\ WF_vars(IngExit(r))
          /\ WF_vars(IngPut(r))
          /\ WF_vars(ProcLoop(r))
          /\ WF_vars(ProcGet(r) \/ ProcTimeout(r))
          /\ WF_vars(ProcWindow(r))
          /\ WF_vars(ProcPublish(r))

InitFair ==
    /\ Constructed
    /\ start_limit = 1
    /\ unit_limit = MaxUnits - 2

SpecFair == InitFair /\ [][Next]_vars /\ Fairness

\* the controller with every counter increment as a read and a write
NextRace ==
    \/ StartCall
    \/ StartNoop
    \/ StartSpawn
    \/ StopBegin
    \/ StopJoinCollection
    \/ StopJoinProcessing
    \/ GetLatestCall
    \/ get_latest_result
    \/ get_statistics
    \/ \E r \in Runs : IngOpen(r)
    \/ \E r \in Runs : IngExit(r)
    \/ \E r \in Runs : IngReadLoad(r)
    \/ \E r \in Runs : IngCount(r)
    \/ \E r \in Runs : IngPutLoad(r)
    \/ \E r \in Runs : IngDrop(r)
    \/ \E r \in Runs : IngFail(r)
    \/ \E r \in Runs : ProcLoop(r)
    \/ \E r \in Runs : ProcGet(r)
    \/ \E r \in Runs : ProcTimeout(r)
    \/ \E r \in Runs : ProcWindowLoad(r)
    \/ \E r \in Runs : ProcCount(r)
    \/ \E r \in Runs : ProcPublish(r)

InitRace ==
    /\ Constructed
    /\ start_limit = 1
    /\ unit_limit = MaxUnits - 1

SpecRace == InitRace /\ [][NextRace]_vars

\* two runs of one controller: start(), stop(), start() again
InitRestart ==
    /\ Constructed
    /\ buffer_size = 1
    /\ step_size = 1
    /\ start_limit = 2
    /\ unit_limit = MaxUnits - 1

\* the caller only starts and stops; it takes no Result
NextRestart ==
    \/ StartCall
    \/ StartNoop
    \/ StartSpawn
    \/ StopBegin
    \/ StopJoinCollection
    \/ StopJoinProcessing
    \/ \E r \in Runs : IngOpen(r)
    \/ \E r \in Runs : IngExit(r)
    \/ \E r \in Runs : IngReadLoad(r)
    \/ \E r \in Runs : IngCount(r)
    \/ \E r \in Runs : IngPutLoad(r)
    \/ \E r \in Runs : IngDrop(r)
    \/ \E r \in Runs : IngFail(r)
    \/ \E r \in Runs : ProcLoop(r)
    \/ \E r \in Runs : ProcGet(r)
    \/ \E r \in Runs : ProcTimeout(r)
    \/ \E r \in Runs : ProcWindowLoad(r)
    \/ \E r \in Runs : ProcCount(r)
    \/ \E r \in Runs : ProcPublish(r)

SpecRestart == InitRestart /\ [][NextRestart]_vars

\* a short first run that leaves state behind, then start() again
InitCarry ==
    /\ Constructed
    /\ buffer_size = 2
    /\ step_size = 1
    /\ start_limit = 2
    /\ unit_limit = MaxUnits - 2

\* the caller only starts and stops; each counter increment is one step
NextCarry ==
    \/ StartCall
    \/ StartNoop
    \/ StartSpawn
    \/ StopBegin
    \/ StopJoinCollection
    \/ StopJoinProcessing
    \/ \E r \in Runs : IngOpen(r)
    \/ \E r \in Runs : IngExit(r)
    \/ \E r \in Runs : IngRead(r)
    \/ \E r \in Runs : IngPut(r)
    \/ \E r \in Runs : IngFail(r)
    \/ \E r \in Runs : ProcLoop(r)
    \/ \E r \in Runs : ProcGet(r)
    \/ \E r \in Runs : ProcTimeout(r)
    \/ \E r \in Runs : ProcWindow(r)
    \/ \E r \in Runs : ProcPublish(r)

SpecCarry == InitCarry /\ [][NextCarry]_vars

\* the leaf functions applied to arguments of their own
NextLeaf == ExtractFeatures \/ LfilterChunks \/ CompareExtractors

SpecLeaf == Init /\ [][NextLeaf]_vars

\* the same controller with a caller that also calls load_model
NextBridge == Next \/ load_model

InitBridge ==
    /\ Constructed
    /\ start_limit = 1
    /\ unit_limit = MaxUnits - 1

SpecBridge == InitBridge /\ [][NextBridge]_vars

(***************************************************************************)
(* Properties                                                              *)
(***************************************************************************)
Range(q) == { q[i] : i \in 1..Len(q) }

\* C1: the rolling window never holds more than buffer_size samples, and the
\* processing loop, having appended a sample, calls _process_window exactly
\* when the window then holds buffer_size samples, never at a smaller length.
C1_WindowBoundAndTrigger ==
    /\ [](Len(buffer) <= buffer_size)
    /\ [][\A r \in Runs :
            (proc_pc[r] = "window" /\ proc_pc'[r] # "window") =>
                /\ (n_windows' = n_windows + 1) <=> (Len(buffer) = buffer_size)
                /\ n_windows' = n_windows \/ n_windows' = n_windows + 1
                /\ n_windows' # n_windows =>
                      /\ last_window' = buffer
                      /\ Len(last_window') = buffer_size]_vars

\* some append triggered _process_window and some append did not
C1_Witness == n_windows >= 1 /\ n_appended > n_windows

\* C2 (as claimed): after every call of _process_window on a full window,
\* accepted or rejected, the window is shorter by min(step_size, length
\* before the call).
C2_EveryTriggerEvicts ==
    [][n_windows' # n_windows =>
          Len(buffer') = Len(buffer) - Min(step_size, Len(buffer))]_vars

\* C3 (as claimed): with 0 < step_size < buffer_size, the last
\* buffer_size - step_size samples of a window passed to _process_window are
\* the first buffer_size - step_size samples of the next window passed, and
\* the other samples of the next window are new.
C3_ConsecutiveWindowsOverlap ==
    [][(n_windows' # n_windows /\ n_windows >= 1
            /\ 0 < step_size /\ step_size < buffer_size) =>
          /\ SubSeq(last_window, step_size + 1, buffer_size)
                = SubSeq(last_window', 1, buffer_size - step_size)
          /\ \A i \in (buffer_size - step_size + 1)..buffer_size :
                last_window'[i] \notin Range(last_window)]_vars

\* the ordinals of the samples of a sequence, in order
Ordinals(q) == [i \in 1..Len(q) |-> q[i].n]

StrictlyIncreasing(q) == \A i \in 1..(Len(q) - 1) : q[i] < q[i + 1]

\* collection threads holding a counted sample not yet put
Holding == { r \in Runs : ing_pc[r] = "put" }

\* C4: every parsed sample raises samples_collected by exactly one, before
\* and whatever the outcome of the put; the put raises samples_dropped by
\* exactly one when it finds the sample channel full and by nothing
\* otherwise, and leaves samples_collected alone.
C4_BackpressureAccounting ==
    [][\A r \in Runs :
          /\ (ing_pc[r] = "loop" /\ ing_pc'[r] = "put") =>
                /\ samples_collected' = samples_collected + 1
                /\ samples_dropped' = samples_dropped
          /\ (ing_pc[r] = "put" /\ ing_pc'[r] = "loop") =>
                /\ samples_collected' = samples_collected
                /\ samples_dropped' =
                      IF Len(data_queue) >= DataQueueMaxsize
                      THEN samples_dropped + 1 ELSE samples_dropped
                /\ Len(data_queue) >= DataQueueMaxsize =>
                      data_queue' = data_queue]_vars

\* two samples were parsed and dropped while the channel stayed full
C4_Witness ==
    /\ samples_dropped >= 2
    /\ samples_collected = DataQueueMaxsize + samples_dropped
    /\ Len(data_queue) = DataQueueMaxsize

C6_IngestionNeverBlocked ==
    \A r \in Runs :
        /\ ing_pc[r] = "put" => ENABLED IngPut(r)
        /\ (ing_pc[r] = "loop" /\ running /\ units_read < unit_limit) =>
              ENABLED IngRead(r)

\* the channel is full, a sample was already dropped on it, the processing
\* thread has ended, and the collection thread holds one more sample
C6_Witness ==
    \E r \in Runs :
        /\ ing_pc[r] = "put"
        /\ proc_pc[r] = "done"
        /\ Len(data_queue) = DataQueueMaxsize
        /\ samples_dropped >= 1

\* C7: the samples reach the rolling window in the order of their parse and
\* each at most once: the ordinals in the window and then in the channel
\* increase strictly, the channel holds only samples parsed after the last
\* one appended, and every parsed sample is appended, queued, dropped or
\* held by its collection thread.
C7_FifoDelivery ==
    /\ StrictlyIncreasing(Ordinals(buffer \o data_queue))
    /\ buffer # <<>> => buffer[Len(buffer)].n = last_appended
    /\ \A i \in 1..Len(data_queue) :
          /\ data_queue[i].n > last_appended
          /\ data_queue[i].n <= samples_collected
    /\ last_appended <= samples_collected
    /\ n_appended <= last_appended
    /\ samples_collected
          = n_appended + Len(data_queue) + samples_dropped + Cardinality(Holding)

\* a sample parsed after a dropped one has been appended
C7_Witness ==
    /\ samples_dropped >= 1
    /\ n_appended >= 2
    /\ last_appended > n_appended

\* the texts of RawUnits that are no integer
Malformed == { <<"x">>, <<>> }

\* C8: reading a unit that is no integer changes none of the counters nor
\* the sample channel, and leaves the collection thread in its loop.
C8_MalformedUnitSkipped ==
    [][(units_read' # units_read /\ last_unit' \in Malformed) =>
          /\ UNCHANGED <<samples_collected, samples_processed, samples_dropped>>
          /\ UNCHANGED data_queue
          /\ ing_pc' = ing_pc
          /\ \E r \in Runs : ing_pc'[r] = "loop"]_vars

\* a malformed unit was read after a sample had been counted and queued
C8_Witness ==
    /\ last_unit \in Malformed
    /\ units_read >= 2
    /\ samples_collected >= 1
    /\ data_queue # <<>>

\* the threads spawned so far
Spawned == { r \in Runs : ing_pc[r] # "unborn" \/ proc_pc[r] # "unborn" }

\* C9: start() called while running returns having changed nothing: no
\* thread is spawned, no handle replaced, and the flag, channels, window and
\* counters are as before, so the pairs spawned are those of the start()
\* calls that found the controller stopped, one after two calls in a row.
C9_StartWhileRunningNoop ==
    /\ [][(caller_pc = "start" /\ caller_pc' # "start" /\ running) =>
            /\ caller_pc' = "idle"
            /\ UNCHANGED <<running, collection_thread, processing_thread,
                           starts, queues, owned, counters, ingest, process>>]_vars
    /\ [](Spawned = 1..starts /\ (running => starts >= 1))

\* start() has been entered with the pair of the first start() running
C9_Witness ==
    /\ caller_pc = "start"
    /\ running
    /\ starts = 1
    /\ Spawned = {1}

\* C10: on a controller never started, stop() runs through both joins
\* without raising, and nothing but the caller's position changes: the flag
\* is false, no thread exists, and channels, window and counters are empty.
C10_StopBeforeStart ==
    starts = 0 =>
        /\ ~running
        /\ collection_thread = None /\ processing_thread = None
        /\ Spawned = {}
        /\ data_queue = <<>> /\ result_queue = <<>>
        /\ buffer = <<>> /\ filter_state = NoFilterState
        /\ samples_collected = 0 /\ samples_processed = 0
        /\ samples_dropped = 0
        /\ caller_pc = "join_collection" => ENABLED StopJoinCollection
        /\ caller_pc = "join_processing" => ENABLED StopJoinProcessing

\* stop() is past its first join on a controller never started
C10_Witness == starts = 0 /\ caller_pc = "join_processing"

\* C11 (as claimed): when stop() returns, no transport handle opened by a
\* collection thread is still open, whether or not the joins timed out.
C11_TransportReleasedAtStopReturn ==
    [][(caller_pc = "join_processing" /\ caller_pc' = "idle") =>
          \A r \in Runs : ser'[r] # "open"]_vars

\* C12: once stop() has cleared the flag after the one start(), every
\* thread spawned leaves its loop and ends, the processing thread also on an
\* empty sample channel, the collection thread with its transport closed;
\* and a call of the controller that has begun returns.
C12_StopTerminatesStages ==
    /\ (~running /\ starts = start_limit) ~>
          \A r \in Spawned :
              /\ ing_pc[r] = "done"
              /\ proc_pc[r] = "done"
              /\ ser[r] # "open"
    /\ (caller_pc # "idle") ~> (caller_pc = "idle")
    /\ [][\A r \in Runs :
            (ser[r] = "open" /\ ing_pc[r] # "done" /\ ing_pc'[r] = "done") =>
                ser'[r] = "closed"]_vars

\* stop() has returned and both threads have ended, the processing thread on
\* an empty sample channel, the transport opened and closed again
C12_Witness ==
    /\ ~running /\ caller_pc = "idle" /\ starts = 1
    /\ ing_pc[1] = "done" /\ proc_pc[1] = "done"
    /\ ser[1] = "closed"
    /\ data_queue = <<>>
    /\ samples_collected >= 1

\* processing threads holding a Result not yet published
Publishing == { r \in Runs : proc_pc[r] = "publish" }

C14_GetLatestResultNonBlocking ==
    /\ [](caller_pc = "get_latest_result" => ENABLED get_latest_result)
    /\ [][(caller_pc = "get_latest_result" /\ caller_pc' = "idle") =>
            /\ result_queue = <<>> =>
                  (result_queue' = <<>> /\ last_returned' = last_returned)
            /\ result_queue # <<>> =>
                  /\ Len(result_queue') = Len(result_queue) - 1
                  /\ last_returned' \in { result_queue[i].k :
                                            i \in 1..Len(result_queue) }
                  /\ \A i \in 1..Len(result_queue') :
                        result_queue'[i].k # last_returned'
                  /\ last_returned' > last_returned]_vars

\* a second Result has been returned, a call on the empty channel is under
\* way, and the processing thread holds a third Result
C14_Witness ==
    /\ caller_pc = "get_latest_result"
    /\ result_queue = <<>>
    /\ last_returned >= 2
    /\ Publishing # {}

\* C15 (as claimed): a Result returned by get_latest_result() is the newest
\* of the Results that were queued at the call: none left in the channel
\* was produced after it.
C15_ReturnsLatestResult ==
    [][(caller_pc = "get_latest_result" /\ caller_pc' = "idle"
            /\ result_queue # <<>>) =>
          \A i \in 1..Len(result_queue') :
              result_queue'[i].k < last_returned']_vars

\* C16: with a classifier attached, a window that passes validation yields a
\* Result however the invocation of the classifier ends; when it fails, the
\* Result carries prediction = None, and as for any processed window
\* step_size samples are evicted, samples_processed grows by one, and the
\* thread goes on to publish.
C16_ClassifierFailureTolerated ==
    /\ [][\A r \in Runs :
            (proc_pc[r] = "window" /\ proc_pc'[r] # "window"
                /\ WindowFull(buffer) /\ ~WindowRaises(buffer)
                /\ model # NoModel) =>
                  /\ bridge' \in {"returned", "failed"}
                  /\ bridge' = "failed" =>
                        proc_result'[r].prediction = NoPrediction
                  /\ proc_result'[r].raw_signal = buffer
                  /\ proc_result'[r].k = samples_processed + 1
                  /\ samples_processed' = samples_processed + 1
                  /\ buffer' = SubSeq(buffer, Min(step_size, Len(buffer)) + 1,
                                      Len(buffer))
                  /\ proc_pc'[r] = "publish"]_vars
    /\ [](\A r \in Runs : proc_pc[r] = "publish" => ENABLED ProcPublish(r))

\* the classifier failed on the window processed last, and the Result of
\* that window, without a prediction, has been published
C16_Witness ==
    /\ model # NoModel
    /\ bridge = "failed"
    /\ Publishing = {}
    /\ samples_processed >= 1
    /\ result_queue # <<>>
    /\ result_queue[Len(result_queue)].k = samples_processed
    /\ result_queue[Len(result_queue)].prediction = NoPrediction

C18_InvalidConfigurationRejected ==
    starts >= 1 =>
        /\ buffer_size > 0
        /\ step_size > 0
        /\ step_size <= buffer_size

\* what get_statistics() and the running flag show
Observable ==
    <<running, samples_collected, samples_processed, samples_dropped,
      Len(buffer), Len(data_queue), Len(result_queue)>>

\* C19 (as claimed): when a collection thread ends on a transport failure
\* with the controller running, what the statistics and the running flag
\* show is no longer what they showed while the thread was alive.
C19_StageDeathSurfaced ==
    [][\A r \in Runs :
          (running /\ ing_pc[r] \in {"open", "loop"} /\ ing_pc'[r] = "done") =>
              Observable' # Observable]_vars

\* C20: once the collection thread has ended with the controller running,
\* the sample channel is eventually empty (unless stop() intervenes); and
\* as long as the controller runs its processing thread does not end: on an
\* empty channel the get times out and the thread polls again.
C20_ProcessingDrainsAfterIngestionDeath ==
    /\ \A r \in Runs :
          (running /\ ing_pc[r] = "done") ~> (data_queue = <<>> \/ ~running)
    /\ [](running /\ processing_thread # None =>
              proc_pc[processing_thread] # "done")
    /\ [][\A r \in Runs :
            (proc_pc[r] = "get" /\ data_queue = <<>> /\ proc_pc'[r] # "get") =>
                proc_pc'[r] = "loop"]_vars

\* the transport failed with samples queued; the controller still runs, every
\* sample that was queued has been appended, and the processing thread polls
C20_Witness ==
    /\ running
    /\ ing_pc[1] = "done" /\ ser[1] = "closed"
    /\ data_queue = <<>>
    /\ proc_pc[1] = "get"
    /\ n_appended >= 2
    /\ n_appended = samples_collected - samples_dropped

\* C25: a stream filtered in two consecutive chunks, the second call given
\* the state the first returned, yields the outputs and the final state of
\* one call on the whole stream from the same initial state.
C25_ChunkedFilteringEqualsWhole ==
    probe.fn = "lfilter" =>
        /\ probe.chunked.y = probe.whole.y
        /\ probe.chunked.zf = probe.whole.zf
        /\ Len(probe.whole.y) = Len(probe.x)

\* a stream of full length was cut into two chunks, neither empty, and the
\* state carried across the cut was not the initial one
C25_Witness ==
    /\ probe.fn = "lfilter"
    /\ Len(probe.x) = MaxWindowLen
    /\ probe.cut = 2
    /\ Lfilter(LfilterZi, SubSeq(probe.x, 1, probe.cut)).zf # LfilterZi
    /\ probe.whole.zf # LfilterZi

IsConstant(w) == \A i \in 1..Len(w) : w[i] = w[1]

\* C26 (as claimed): for every constant window of length >= 3 the extractor
\* returns STD = 0 and SSC = 0.
C26_ConstantWindowStdZero ==
    (probe.fn = "_extract_features" /\ Len(probe.signal) >= 3
        /\ IsConstant(probe.signal)) =>
          /\ probe.features.std2 = 0
          /\ probe.features.ssc = 0

\* C26 (amended): for every constant window of length >= 3 the extractor
\* returns SSC = 0; STD is 0 when the mean of the window comes out as the
\* constant itself, and otherwise the mean is off by at most one unit in the
\* last place of the constant and STD is that rounding residue, not 0.
C26_ConstantWindowFeatures ==
    (probe.fn = "_extract_features" /\ Len(probe.signal) >= 3
        /\ IsConstant(probe.signal)) =>
          LET c == probe.signal[1]
              m == Mean(probe.signal)
          IN  /\ probe.features.ssc = 0
              /\ (m = c) <=> (probe.features.std2 = 0)
              /\ Abs(m - c) <= Ulp(Abs(c), 1)
              /\ probe.features.std2 <= Ulp(Abs(c), 1) * Ulp(Abs(c), 1)

\* a constant window of length 3 whose sum is rounded: its mean is not the
\* constant and its STD is not 0
C26_Witness ==
    /\ probe.fn = "_extract_features"
    /\ Len(probe.signal) = 3
    /\ IsConstant(probe.signal)
    /\ probe.signal[1] = RoundedConstant
    /\ probe.features.std2 > 0
    /\ probe.features.ssc = 0

Alternates(w) == \A i \in 1..Len(w) : w[i] = (IF i % 2 = 1 THEN 1 ELSE -1)

\* C27: for every window of length L >= 2 that alternates 1, -1, 1, -1, ...
\* the extractor returns ZC = L - 1.
C27_AlternatingWindowZeroCrossings ==
    (probe.fn = "_extract_features" /\ Len(probe.signal) >= 2
        /\ Alternates(probe.signal)) =>
          probe.features.zc = Len(probe.signal) - 1

\* the alternating window of odd length 3, whose first and last sample have
\* the same sign
C27_Witness ==
    /\ probe.fn = "_extract_features"
    /\ probe.signal = <<1, -1, 1>>
    /\ probe.features.zc = 2

\* floor((n - buffer_size) / step_size) + 1 Results for n >= buffer_size
ExpectedResults(n) ==
    IF n < buffer_size THEN 0 ELSE ((n - buffer_size) \div step_size) + 1

\* C23: with 0 < step_size <= buffer_size, no sample dropped and no window
\* rejected, once the n samples fed have been consumed the windows
\* processed number 0 for n < buffer_size and
\* floor((n - buffer_size) / step_size) + 1 otherwise; and as long as that
\* number is within the result channel's capacity (the channel was never
\* full), so many Results were published: those returned plus those queued.
C23_ResultCount ==
    (/\ 0 < step_size /\ step_size <= buffer_size
     /\ samples_dropped = 0
     /\ n_windows = samples_processed
     /\ \A r \in Runs : proc_pc[r] # "window") =>
        /\ samples_processed = ExpectedResults(n_appended)
        /\ (data_queue = <<>> /\ Holding = {}) =>
              samples_processed = ExpectedResults(samples_collected)
        /\ (samples_processed <= ResultQueueMaxsize /\ Publishing = {}) =>
              last_returned + Len(result_queue) = samples_processed

\* buffer_size + 1 samples were fed with a step of 2 into a window of 3:
\* floor(1 / 2) + 1 = 1 Result
C23_Witness ==
    /\ buffer_size = 3 /\ step_size = 2
    /\ samples_collected = 4 /\ n_appended = 4
    /\ samples_dropped = 0
    /\ n_windows = 1 /\ samples_processed = 1
    /\ Len(result_queue) = 1
    /\ \A r \in Runs : proc_pc[r] \notin {"window", "publish"}

\* C24: a processing thread ends only at the test of the flag, having found
\* it cleared; a window that raises in _process_window takes the thread
\* back to its loop.
C24_FaultsNeverEndProcessing ==
    [][\A r \in Runs :
          /\ (proc_pc[r] # "done" /\ proc_pc'[r] = "done") =>
                (~running /\ proc_pc[r] = "loop")
          /\ (proc_pc[r] = "window" /\ proc_pc'[r] # "window"
                  /\ WindowFull(buffer) /\ WindowRaises(buffer)) =>
                proc_pc'[r] = "loop"]_vars

\* a window raised, and the thread of the running controller is waiting for
\* the next sample
C24_Witness ==
    /\ running
    /\ n_windows >= 1
    /\ WindowRaises(last_window)
    /\ proc_pc[1] = "get"
    /\ n_windows > samples_processed

\* C28 (as claimed): with 0 < step_size <= buffer_size, no sample dropped
\* and no window rejected, each filtering call after the first starts from
\* the state the previous call returned, and its first sample is the stream
\* successor of the last sample of the previous call.
C28_FilterContinuity ==
    [][\A r \in Runs :
          (proc_pc[r] = "window" /\ proc_pc'[r] = "publish"
              /\ filter_state.set /\ samples_dropped = 0
              /\ 0 < step_size /\ step_size <= buffer_size
              /\ n_windows = samples_processed) =>
                /\ filter_state'.calls = filter_state.calls + 1
                /\ buffer[1].n =
                      filter_state.after[Len(filter_state.after)].n + 1]_vars

C21_CountersNeverDecrease ==
    [][/\ samples_collected' >= samples_collected
       /\ samples_processed' >= samples_processed
       /\ samples_dropped' >= samples_dropped]_vars

\* C22: with one Ingestion thread, one Processing thread and the caller
\* interleaved in every order, each counter equals the number of increments
\* executed on it.
C22_NoIncrementLost ==
    /\ samples_collected = increments.collected
    /\ samples_processed = increments.processed
    /\ samples_dropped = increments.dropped

\* both stages are between the read and the write of their counter
C22_Witness ==
    /\ increments.collected >= 2
    /\ increments.processed >= 1
    /\ \E r \in Runs : ing_pc[r] = "count" /\ proc_pc[r] = "count"

InIngestionLoop == { r \in Runs : ing_pc[r] \in {"loop", "count", "put", "drop"} }
InProcessingLoop == { r \in Runs : proc_pc[r] \notin {"unborn", "done"} }

\* C30: at most one Ingestion thread and at most one Processing thread are
\* in their loops, and while a run is on, every thread of an earlier run has
\* ended.
C30_OneThreadPerStage ==
    /\ Cardinality(InIngestionLoop) <= 1
    /\ Cardinality(InProcessingLoop) <= 1
    /\ running =>
          \A r \in Runs : r < starts =>
              /\ ing_pc[r] \in {"unborn", "done"}
              /\ proc_pc[r] \in {"unborn", "done"}

\* collection threads between the parse of a sample and the end of its put
MidSample == { r \in Runs : ing_pc[r] \in {"count", "put", "drop"} }

\* C31: whenever the Ingestion thread is between samples (the Processing
\* thread takes a sample off the channel and appends it in one step),
\* samples_collected = samples_dropped + the samples in the sample channel
\* + the samples dequeued so far; and samples_dropped <= samples_collected
\* in every state.
C31_SampleConservation ==
    /\ MidSample = {} =>
          samples_collected = samples_dropped + Len(data_queue) + n_appended
    /\ samples_dropped <= samples_collected

\* one sample dropped, one in the channel, one dequeued, none in flight
C31_Witness ==
    /\ MidSample = {}
    /\ samples_dropped >= 1
    /\ Len(data_queue) >= 1
    /\ n_appended >= 1

\* every thread started so far has ended
StagesExited ==
    \A r \in Runs : ing_pc[r] \in {"unborn", "done"}
                    /\ proc_pc[r] \in {"unborn", "done"}

\* C32: from the exit of a run's stages, through the rest of stop() and the
\* whole of the next start(), the rolling window, the filter state, both
\* channels and the three counters stay exactly as the stages left them;
\* start() itself never changes them.
C32_RestartCarriesState ==
    [][((starts >= 1 /\ StagesExited) \/ starts' # starts) =>
          UNCHANGED <<buffer, filter_state, data_queue, result_queue,
                      samples_collected, samples_processed,
                      samples_dropped>>]_vars

\* the second run has just been started, the first run's threads are gone,
\* and the window, the filter state, the result channel and the counters
\* still hold what the first run left
C32_Witness ==
    /\ starts = 2
    /\ ing_pc = <<"done", "open">>
    /\ proc_pc = <<"done", "loop">>
    /\ Len(buffer) = buffer_size - step_size
    /\ filter_state # NoFilterState
    /\ result_queue # <<>>
    /\ samples_collected = 2
    /\ samples_processed = 1

\* the first n samples of the stream, each named by its ordinal
StreamOf(n) == [i \in 1..n |-> i]

\* the offline windows of the samples dequeued so far
OfflineWindows == Windowing(StreamOf(n_appended), buffer_size, step_size)

\* C33: with 0 < step_size <= buffer_size, no sample dropped and no window
\* rejected, every window handed to _process_window is the window the
\* offline windowing cuts at the same position out of the whole stream, and
\* once a sample has been dealt with the windows handed over are as many as
\* the offline windowing cuts out of the samples dequeued.
C33_StreamingWindowsAreOfflineWindows ==
    /\ []((/\ 0 < step_size /\ step_size <= buffer_size
           /\ samples_dropped = 0
           /\ n_windows = samples_processed
           /\ \A r \in Runs : proc_pc[r] # "window") =>
              n_windows = Len(OfflineWindows))
    /\ [][(/\ 0 < step_size /\ step_size <= buffer_size
           /\ samples_dropped = 0
           /\ n_windows = samples_processed
           /\ n_windows' = n_windows + 1) =>
              /\ n_windows' <= Len(OfflineWindows)
              /\ Ordinals(last_window') = OfflineWindows[n_windows']]_vars

\* the second window of a stream of four samples, window 3 and step 1, was
\* handed over: samples 2, 3, 4
C33_Witness ==
    /\ buffer_size = 3 /\ step_size = 1
    /\ samples_dropped = 0
    /\ n_windows = 2 /\ samples_processed = 2
    /\ Ordinals(last_window) = <<2, 3, 4>>

\* C34 (as claimed): for every window of length >= 3, exact zeros included,
\* _extract_features and FeatureExtractor.extract_features return the same
\* SSC and the same ZC.
C34_ExtractorsAgree ==
    probe.fn = "extract_features" =>
        /\ probe.streaming.ssc = probe.offline.ssc
        /\ probe.streaming.zc = probe.offline.zc

====
